---- MODULE Spec2Model ----
(***************************************************************************)
(* The function-metadata registry and the task execution graph of          *)
(* aoagent/core/task_components.py.                                        *)
(*                                                                         *)
(* The state is the module's namespace: function_registry (line 20), the   *)
(* names the module body has bound so far, AOTASK_EXECUTION_GRAPH and the  *)
(* list objects it holds.  The module body (lines 65-102) runs once, top   *)
(* to bottom, and stops at the first exception; the names bound until     *)
(* then stay bound (python -i -m, a debugger, a frame that holds the       *)
(* module's globals).  Afterwards a caller that holds the namespace calls  *)
(* register_function and get_task_graph; a name that was never bound       *)
(* raises NameError.                                                       *)
(*                                                                         *)
(* FunctionSignature is a pydantic model (pydantic 2, which pydantic_ai    *)
(* in domain/agent.py requires): values passed to the constructor are      *)
(* validated against the declared type, defaults are not.                  *)
(***************************************************************************)
EXTENDS Naturals, Sequences, FiniteSets, TLC

VARIABLES
    function_registry,       \* dict name -> FunctionSignature          (line 20)
    registry_before,         \* function_registry as the last call found it
    namespace,               \* module-level names bound so far
    AOTASK_EXECUTION_GRAPH,  \* dict task -> reference of a list object (line 88)
    heap,                    \* list objects: reference -> sequence of functions
    pc,                      \* "load" | "loaded" | "failed"
    last,                    \* the last call and its outcome
    calls                    \* number of calls made after the module body ran

vars == <<function_registry, registry_before, namespace,
          AOTASK_EXECUTION_GRAPH, heap, pc, last, calls>>

\* Number of register_function / get_task_graph calls a caller makes.
MaxCalls == 3

----------------------------------------------------------------------------
(* Python values                                                           *)

\* An absent value (None, no annotation, no default) is the empty sequence,
\* a present value v is <<v>>.
None == <<>>
Some(v) == <<v>>

\* Annotation objects: whether the object has __name__, that name, and str().
IntT == [has_name |-> TRUE, name |-> "int", str |-> "<class 'int'>"]
StrT == [has_name |-> TRUE, name |-> "str", str |-> "<class 'str'>"]
BoolT == [has_name |-> TRUE, name |-> "bool", str |-> "<class 'bool'>"]
\* int | None: a types.UnionType, which has no __name__
UnionT == [has_name |-> FALSE, name |-> "", str |-> "int | None"]
\* typing.Any, the default of type_hints.get(name, Any)
AnyT == [has_name |-> TRUE, name |-> "Any", str |-> "typing.Any"]
\* type(None), the default of type_hints.get('return', type(None))
NoneTypeT == [has_name |-> TRUE, name |-> "NoneType", str |-> "<class 'NoneType'>"]

\* dict operations
EmptyDict == <<>>
Put(d, k, v) == [x \in (DOMAIN d) \cup {k} |-> IF x = k THEN v ELSE d[x]]
Get(d, k, default) == IF k \in DOMAIN d THEN d[k] ELSE default

Range(s) == {s[i] : i \in DOMAIN s}

----------------------------------------------------------------------------
(* Callables                                                               *)

\* A callable as register_function sees it:
\*   sig_ok    inspect.signature(func) succeeds
\*   hints_ok  get_type_hints(func) succeeds (every annotation resolves)
\*   name      func.__name__, None when the callable has no such attribute
\*   params    sig.parameters in declaration order: name, default, annotation
\*   ret       the return annotation
\*   doc       func.__doc__
Param(n, d, h) == [name |-> n, has_default |-> d, hint |-> h]

Func(n, ps, r, d) ==
    [name |-> n, params |-> ps, ret |-> r, doc |-> d,
     sig_ok |-> TRUE, hints_ok |-> TRUE]

\* def upload_to_notion(): raise NotImplementedError   (and the four others)
Placeholder(n) == Func(Some(n), <<>>, None, None)

PlaceholderNames ==
    <<"upload_to_notion", "send_email", "scrape", "planning", "analyse">>

\* The callables a caller passes in.
ParamPool ==
    { Param("a", FALSE, Some(IntT)),    \* a: int
      Param("a", TRUE, None),           \* a=1
      Param("b", TRUE, Some(StrT)),     \* b: str = "x"
      Param("b", FALSE, Some(UnionT)) } \* b: int | None

ParamLists ==
    {<<>>} \cup {<<p>> : p \in ParamPool}
           \cup {<<p, q>> : p \in {x \in ParamPool : x.name = "a"},
                            q \in {x \in ParamPool : x.name = "b"}}
           \cup {<<Param("b", TRUE, Some(StrT)), Param("a", FALSE, Some(IntT))>>}

CallerNames == {"f", "g"}
DocText == "does a thing"

\* Functions with a docstring.
Documented ==
    {Func(Some(n), ps, r, Some(DocText)) :
        n \in CallerNames, ps \in ParamLists, r \in {None, Some(BoolT)}}

\* Functions without one: def f(): ..., def f(a: int) -> bool: ...
Undocumented ==
    {Func(Some(n), <<>>, None, None) : n \in CallerNames}
    \cup
    {Func(Some(n), <<Param("a", FALSE, Some(IntT))>>, Some(BoolT), None) :
        n \in CallerNames}

WellFormed == Documented \cup Undocumented

\* Callables on which one step of register_function fails.
Broken ==
    { [Func(Some(n), <<Param("a", FALSE, Some(IntT))>>, None, Some(DocText))
          EXCEPT !.sig_ok = FALSE] : n \in CallerNames }
    \cup
    { [Func(Some(n), <<Param("a", FALSE, Some(IntT))>>, None, Some(DocText))
          EXCEPT !.hints_ok = FALSE] : n \in CallerNames }
    \cup
    { Func(None, <<Param("a", FALSE, Some(IntT))>>, None, Some(DocText)) }

Functions == WellFormed \cup Broken

----------------------------------------------------------------------------
(* register_function, lines 22-63                                          *)

\* type_to_string, lines 22-27
type_to_string(type_hint) ==
    IF type_hint.has_name THEN type_hint.name ELSE type_hint.str

\* get_type_hints(func), line 33: the annotated parameters and, when the
\* function declares a return annotation, the key 'return'.
get_type_hints(func) ==
    LET annotated == {i \in DOMAIN func.params : func.params[i].hint # None}
        names == {func.params[i].name : i \in annotated}
        HintOf(n) ==
            LET i == CHOOSE j \in annotated : func.params[j].name = n
            IN func.params[i].hint[1]
        keys == names \cup (IF func.ret # None THEN {"return"} ELSE {})
    IN [k \in keys |-> IF k = "return" THEN func.ret[1] ELSE HintOf(k)]

\* The four collections the loop fills, lines 35-38.
EmptyCollections ==
    [required_args |-> <<>>, optional_args |-> <<>>, args |-> <<>>,
     types |-> EmptyDict]

\* A loop body whose else branch is not an else: every parameter is appended
\* to optional_args, the required ones to both lists.
LoopBodyNoElse(acc, param, type_hints) ==
    LET acc1 == [acc EXCEPT
                    !.args = Append(@, param.name),
                    !.types = Put(@, param.name,
                                  type_to_string(Get(type_hints, param.name, AnyT)))]
        acc2 == IF ~param.has_default
                THEN [acc1 EXCEPT !.required_args = Append(@, param.name)]
                ELSE acc1
    IN [acc2 EXCEPT !.optional_args = Append(@, param.name)]

\* A loop body that records a type only for the parameters get_type_hints
\* knows, and copies the 'return' hint into types.
LoopBodyHintsOnly(acc, param, type_hints) ==
    LET t1 == IF param.name \in DOMAIN type_hints
              THEN Put(acc.types, param.name,
                       type_to_string(type_hints[param.name]))
              ELSE acc.types
        t2 == IF "return" \in DOMAIN type_hints
              THEN Put(t1, "return", type_to_string(type_hints["return"]))
              ELSE t1
        acc1 == [acc EXCEPT !.args = Append(@, param.name), !.types = t2]
    IN IF ~param.has_default
       THEN [acc1 EXCEPT !.required_args = Append(@, param.name)]
       ELSE [acc1 EXCEPT !.optional_args = Append(@, param.name)]

\* One iteration of the loop, lines 41-47.
LoopBody(acc, param, type_hints) ==
    LET acc1 == [acc EXCEPT
                    !.args = Append(@, param.name),
                    !.types = Put(@, param.name,
                                  type_to_string(Get(type_hints, param.name, AnyT)))]
    IN IF ~param.has_default
       THEN [acc1 EXCEPT !.required_args = Append(@, param.name)]
       ELSE [acc1 EXCEPT !.optional_args = Append(@, param.name)]

\* for name, param in sig.parameters.items(), line 40
RECURSIVE Loop(_, _, _, _)
Loop(acc, params, i, type_hints) ==
    IF i > Len(params) THEN acc
    ELSE Loop(LoopBody(acc, params[i], type_hints), params, i + 1, type_hints)

\* FunctionSignature(...), lines 11-18 and 51-59: pydantic validates every
\* value that is passed; a field declared str rejects None, whatever its
\* default.  name and return_type are always strings here, doc is func.__doc__.
FunctionSignature(name, args, types, return_type, doc, required_args, optional_args) ==
    IF doc = None
    THEN [raised |-> "ValidationError", value |-> None]
    ELSE [raised |-> "None",
          value |-> Some([name |-> name, args |-> args, types |-> types,
                          return_type |-> return_type, doc |-> doc[1],
                          required_args |-> required_args,
                          optional_args |-> optional_args])]

\* An install that keeps the entry a name already has.
InstallIfAbsent(registry, signature) ==
    IF signature.name \in DOMAIN registry THEN registry
    ELSE Put(registry, signature.name, signature)

\* An install that rebinds the registry to a dict holding the new entry only.
InstallFresh(registry, signature) ==
    Put(EmptyDict, signature.name, signature)

\* function_registry[func.__name__] = signature, line 61
Install(registry, signature) ==
    Put(registry, signature.name, signature)

\* The metadata register_function computes before it builds the record,
\* lines 32-49 and the keyword arguments of lines 52-58.
Collected(func) ==
    LET type_hints == get_type_hints(func)
        acc == Loop(EmptyCollections, func.params, 1, type_hints)
    IN [acc |-> acc,
        return_type |-> type_to_string(Get(type_hints, "return", NoneTypeT))]

\* A register_function that installs what it has collected under the
\* function's name before the record is validated.
register_function_install_first(registry, func) ==
    IF ~func.sig_ok THEN [registry |-> registry, raised |-> "ValueError"]
    ELSE IF ~func.hints_ok THEN [registry |-> registry, raised |-> "NameError"]
    ELSE IF func.name = None
         THEN [registry |-> registry, raised |-> "AttributeError"]
    ELSE
      LET c == Collected(func)
          raw == [name |-> func.name[1], args |-> c.acc.args,
                  types |-> c.acc.types, return_type |-> c.return_type,
                  doc |-> IF func.doc = None THEN "" ELSE func.doc[1],
                  required_args |-> c.acc.required_args,
                  optional_args |-> c.acc.optional_args]
          signature == FunctionSignature(func.name[1], c.acc.args, c.acc.types,
                           c.return_type, func.doc,
                           c.acc.required_args, c.acc.optional_args)
      IN [registry |-> Install(registry, raw), raised |-> signature.raised]

\* register_function(func), lines 30-63: the registry it leaves and the
\* exception it raises ("None": it returns func).
register_function(registry, func) ==
    IF ~func.sig_ok THEN [registry |-> registry, raised |-> "ValueError"]
    ELSE IF ~func.hints_ok THEN [registry |-> registry, raised |-> "NameError"]
    ELSE IF func.name = None
         THEN [registry |-> registry, raised |-> "AttributeError"]
    ELSE
      LET c == Collected(func)
          signature == FunctionSignature(func.name[1], c.acc.args, c.acc.types,
                           c.return_type, func.doc,
                           c.acc.required_args, c.acc.optional_args)
      IN IF signature.raised # "None"
         THEN [registry |-> registry, raised |-> signature.raised]
         ELSE [registry |-> Install(registry, signature.value[1]),
               raised |-> "None"]

----------------------------------------------------------------------------
(* The module body, lines 65-102                                           *)

\* SupportedTask, imported from ..domain.models (line 8)
SupportedTask == {"RESEARCH", "PLANNING"}

\* What a caller passes to get_task_graph: the members of the enumeration
\* and a value that is none of them.
TaskArguments == SupportedTask \cup {"OTHER"}

\* The two list literals of lines 89-97 and the references of their objects.
ListRef(task) == IF task = "RESEARCH" THEN "list_RESEARCH" ELSE "list_PLANNING"
GraphLiteral(task) ==
    IF task = "RESEARCH" THEN <<"analyse", "scrape", "upload_to_notion">>
    ELSE <<"planning", "send_email">>

\* The decorated definitions of lines 65-84, in order: register_function is
\* applied to each function, and the name is bound to what it returns.  An
\* exception ends the module body.
RECURSIVE Decorate(_, _)
Decorate(st, i) ==
    IF i > Len(PlaceholderNames) THEN st
    ELSE LET n == PlaceholderNames[i]
             r == register_function(st.registry, Placeholder(n))
         IN IF r.raised # "None"
            THEN [registry |-> r.registry, namespace |-> st.namespace,
                  raised |-> r.raised]
            ELSE Decorate([registry |-> r.registry,
                           namespace |-> st.namespace \cup {n},
                           raised |-> "None"], i + 1)

Call(op, func, task, raised, ret) ==
    [op |-> op, func |-> func, task |-> task, raised |-> raised, ret |-> ret]

\* The state once lines 1-63 have run.
Init ==
    /\ function_registry = EmptyDict
    /\ registry_before = EmptyDict
    /\ namespace = {"function_registry", "register_function"}
    /\ AOTASK_EXECUTION_GRAPH = EmptyDict
    /\ heap = EmptyDict
    /\ pc = "load"
    /\ last = Call("none", None, "", "None", None)
    /\ calls = 0

\* Lines 65-102: the five decorated definitions, the graph literal, the
\* definition of get_task_graph.
ModuleLoad ==
    /\ pc = "load"
    /\ LET st == Decorate([registry |-> function_registry,
                           namespace |-> namespace, raised |-> "None"], 1)
       IN /\ registry_before' = function_registry
          /\ function_registry' = st.registry
          /\ last' = Call("load", None, "", st.raised, None)
          /\ IF st.raised # "None"
             THEN /\ pc' = "failed"
                  /\ namespace' = st.namespace
                  /\ UNCHANGED <<AOTASK_EXECUTION_GRAPH, heap>>
             ELSE /\ pc' = "loaded"
                  /\ heap' = [r \in {ListRef(t) : t \in SupportedTask} |->
                                 GraphLiteral(CHOOSE t \in SupportedTask : ListRef(t) = r)]
                  /\ AOTASK_EXECUTION_GRAPH' = [t \in SupportedTask |-> ListRef(t)]
                  /\ namespace' = st.namespace
                                    \cup {"AOTASK_EXECUTION_GRAPH", "get_task_graph"}
    /\ UNCHANGED calls

\* A caller applies register_function to a callable of its own.
CallRegister(func) ==
    /\ pc # "load"
    /\ calls < MaxCalls
    /\ "register_function" \in namespace
    /\ LET r == register_function(function_registry, func)
       IN /\ registry_before' = function_registry
          /\ function_registry' = r.registry
          /\ last' = Call("register_function", Some(func), "", r.raised, None)
    /\ calls' = calls + 1
    /\ UNCHANGED <<namespace, AOTASK_EXECUTION_GRAPH, heap, pc>>

\* get_task_graph(supported_task), lines 101-102: the exception raised and
\* the reference returned.  The name get_task_graph is bound by line 101
\* only; calling a name the module body never bound is a NameError.
get_task_graph(supported_task) ==
    IF "get_task_graph" \notin namespace
    THEN [raised |-> "NameError", ret |-> None]
    ELSE IF supported_task \notin DOMAIN AOTASK_EXECUTION_GRAPH
    THEN [raised |-> "KeyError", ret |-> None]
    ELSE [raised |-> "None", ret |-> Some(AOTASK_EXECUTION_GRAPH[supported_task])]

\* A caller calls get_task_graph.
CallGetTaskGraph(task) ==
    /\ pc # "load"
    /\ calls < MaxCalls
    /\ LET r == get_task_graph(task)
       IN last' = Call("get_task_graph", None, task, r.raised, r.ret)
    /\ registry_before' = function_registry
    /\ calls' = calls + 1
    /\ UNCHANGED <<function_registry, namespace, AOTASK_EXECUTION_GRAPH, heap, pc>>

Next ==
    \/ ModuleLoad
    \/ \E func \in Functions : CallRegister(func)
    \/ \E task \in TaskArguments : CallGetTaskGraph(task)

Spec == Init /\ [][Next]_vars

----------------------------------------------------------------------------
(* Properties                                                              *)

Count(s, x) == Cardinality({i \in DOMAIN s : s[i] = x})

\* s is t with some elements left out, the order kept
RECURSIVE IsSubsequence(_, _)
IsSubsequence(s, t) ==
    IF s = <<>> THEN TRUE
    ELSE IF t = <<>> THEN FALSE
    ELSE IF Head(s) = Head(t) THEN IsSubsequence(Tail(s), Tail(t))
    ELSE IsSubsequence(s, Tail(t))

LastIsRegister == last.op = "register_function"
LastIsLookup == last.op = "get_task_graph"
LastFunc == last.func[1]

\* C1: once the module body has run, get_task_graph(t) returns, for each
\* supported task t, a non-empty sequence of functions whose names are all
\* keys of function_registry.
C1_GraphsNonEmptyAndRegistered ==
    pc # "load" =>
        \A t \in SupportedTask :
            LET r == get_task_graph(t)
            IN /\ r.raised = "None"
               /\ heap[r.ret[1]] # <<>>
               /\ \A i \in DOMAIN heap[r.ret[1]] :
                      heap[r.ret[1]][i] \in DOMAIN function_registry

\* C2: get_task_graph(RESEARCH) returns exactly
\* [analyse, scrape, upload_to_notion], in that order.
C2_ResearchGraphExact ==
    (LastIsLookup /\ last.task = "RESEARCH") =>
        /\ last.raised = "None"
        /\ last.ret # None
        /\ heap[last.ret[1]] = <<"analyse", "scrape", "upload_to_notion">>

\* C3: get_task_graph called with an identifier that has no entry in the
\* graph fails with a key-not-found error, returns nothing, and leaves the
\* registry and the graph as they were.
C3_MissingKeyIsKeyError ==
    (LastIsLookup /\ last.task \notin SupportedTask) =>
        /\ last.raised = "KeyError"
        /\ last.ret = None
        /\ function_registry = registry_before
        /\ last.task \notin DOMAIN AOTASK_EXECUTION_GRAPH

\* C4: in every entry of function_registry, required_args and optional_args
\* are disjoint, each is a subsequence of args in declaration order, and
\* every name of args is in exactly one of them, once.
C4_RequiredOptionalPartitionArgs ==
    \A n \in DOMAIN function_registry :
        LET s == function_registry[n]
        IN /\ Range(s.required_args) \cap Range(s.optional_args) = {}
           /\ IsSubsequence(s.required_args, s.args)
           /\ IsSubsequence(s.optional_args, s.args)
           /\ Range(s.required_args) \cup Range(s.optional_args) = Range(s.args)
           /\ \A i \in DOMAIN s.args :
                  Count(s.required_args, s.args[i])
                      + Count(s.optional_args, s.args[i]) = 1

\* An installed entry with both kinds of parameter, an optional one declared
\* before a required one.
C4_Witness ==
    \E n \in DOMAIN function_registry :
        LET s == function_registry[n]
        IN /\ s.required_args # <<>>
           /\ s.optional_args # <<>>
           /\ s.args[1] = s.optional_args[1]

\* C5: in every entry of function_registry, the keys of types are exactly
\* the names in args: no parameter is missing, there is no other key (no
\* 'return'), and len(types) = len(args).
C5_TypesKeysAreArgs ==
    \A n \in DOMAIN function_registry :
        LET s == function_registry[n]
        IN /\ DOMAIN s.types = Range(s.args)
           /\ "return" \notin DOMAIN s.types
           /\ Cardinality(DOMAIN s.types) = Len(s.args)

\* The entry of a function that has a return annotation and a parameter
\* without annotation: its type hints are not its parameters.
C5_Witness ==
    /\ LastIsRegister
    /\ last.raised = "None"
    /\ LastFunc.ret # None
    /\ \E i \in DOMAIN LastFunc.params : LastFunc.params[i].hint = None
    /\ LastFunc.name[1] \in DOMAIN function_registry

\* C6: a registration under a name that is already registered raises no
\* conflict error (it ends as the same registration into an empty registry
\* ends) and leaves, under that name, only the metadata of the function
\* registered last; the entries under other names are unchanged.
C6_LastRegistrationWins ==
    LastIsRegister =>
        LET alone == register_function(EmptyDict, LastFunc)
        IN /\ last.raised = alone.raised
           /\ last.raised = "None" =>
                LET n == LastFunc.name[1]
                IN /\ DOMAIN function_registry = DOMAIN registry_before \cup {n}
                   /\ function_registry[n] = alone.registry[n]
                   /\ \A m \in DOMAIN registry_before \ {n} :
                          function_registry[m] = registry_before[m]

\* A second, different function registered under a name, with another name
\* in the registry.
C6_Witness ==
    /\ LastIsRegister
    /\ last.raised = "None"
    /\ LastFunc.name[1] \in DOMAIN registry_before
    /\ registry_before[LastFunc.name[1]] # function_registry[LastFunc.name[1]]
    /\ DOMAIN registry_before # {LastFunc.name[1]}

\* C7 as claimed: an entry, once in function_registry, is never changed or
\* removed by a later call.
C7_EntriesNeverChange ==
    \A n \in DOMAIN registry_before :
        /\ n \in DOMAIN function_registry
        /\ function_registry[n] = registry_before[n]

\* C7, amended: no call removes an entry, and an entry changes only in a
\* successful register_function of a function of that same name;
\* get_task_graph and failed registrations change nothing.
C7_EntriesKeptOrReplacedBySameName ==
    \A n \in DOMAIN registry_before :
        /\ n \in DOMAIN function_registry
        /\ function_registry[n] # registry_before[n] =>
               /\ LastIsRegister
               /\ last.raised = "None"
               /\ LastFunc.name = Some(n)

\* An entry whose argument list a later registration replaced, while the
\* other name's entry survived.
C7_Witness ==
    /\ Cardinality(DOMAIN registry_before) = 2
    /\ \E n \in DOMAIN registry_before :
           /\ n \in DOMAIN function_registry
           /\ function_registry[n].args # registry_before[n].args

\* C8: a register_function that cannot resolve the signature or the type
\* hints, or cannot build the FunctionSignature record, raises, and a
\* register_function that raises leaves function_registry as it was.
C8_FailedRegistrationLeavesRegistry ==
    LastIsRegister =>
        /\ (\/ ~LastFunc.sig_ok
            \/ ~LastFunc.hints_ok
            \/ LastFunc.name = None
            \/ LastFunc.doc = None) => last.raised # "None"
        /\ last.raised # "None" => function_registry = registry_before

\* A registration that failed when the record was built, under a name that
\* has an entry.
C8_Witness ==
    /\ LastIsRegister
    /\ last.raised = "ValidationError"
    /\ LastFunc.name[1] \in DOMAIN registry_before
    /\ registry_before[LastFunc.name[1]].args # <<>>

\* C9: register_function of a callable without docstring completes and
\* installs an entry; once the module body has run, the five placeholder
\* functions have an entry each.
C9_NoDocstringRegisters ==
    /\ (LastIsRegister /\ LastFunc.sig_ok /\ LastFunc.hints_ok
            /\ LastFunc.name # None /\ LastFunc.doc = None) =>
           /\ last.raised = "None"
           /\ LastFunc.name[1] \in DOMAIN function_registry
    /\ pc # "load" =>
           /\ last.op = "load" => last.raised = "None"
           /\ Range(PlaceholderNames) \subseteq DOMAIN function_registry

\* C10: get_task_graph(t), for a supported task t, returns the list object
\* the graph stores for t, not a copy of it.
C10_ReturnsStoredList ==
    (LastIsLookup /\ last.task \in SupportedTask) =>
        /\ last.task \in DOMAIN AOTASK_EXECUTION_GRAPH
        /\ last.ret = Some(AOTASK_EXECUTION_GRAPH[last.task])

====
